---- MODULE Spec2Model ----
(***************************************************************************)
(* State-machine model of the textual-web command-line entry point         *)
(* (src/src/textual_web/cli.py, function `app`).  One behaviour of the      *)
(* model is one invocation of the command: option parsing by click, the     *)
(* environment lookup, the signup / welcome one-shot branches, config       *)
(* loading, construction and seeding of the GanglionClient, and the         *)
(* selection and start of the asyncio runtime.                              *)
(***************************************************************************)
EXTENDS Integers, Sequences, FiniteSets, TLC

VARIABLES
    pc,                 \* position of the invocation in cli.py
    config,             \* -c/--config value, NoValue when not given
    envOption,          \* -e/--environment value, NoValue when not given
    defaultEnvironment, \* constants.ENVIRONMENT, the option's default
    terminal,           \* -t/--terminal
    signup,             \* -s/--signup
    welcome,            \* --welcome
    version_info,       \* minor version of the running Python 3 interpreter
    SHELL,              \* os.environ.get("SHELL"), NoValue when unset
    environment,        \* value click passes to app() as `environment`
    resolveCalls,       \* names get_environment was called with, in order
    _environment,       \* result of get_environment
    flows,              \* which of signup / welcome / normal run were entered
    configCalls,        \* config resolvers called, in order
    loadOutcome,        \* how load_config ended
    _config,            \* the config document
    constructed,        \* whether GanglionClient(...) was constructed
    apps,               \* the client's registered sessions (config.apps)
    countAtSeeding,     \* value of app_count read at line 149, -1 before
    importOutcome,      \* how `import uvloop` ended
    strategies,         \* startup strategies executed, in order
    installs,           \* number of uvloop.install() calls
    runner,             \* asyncio.Runner context: "none", "open", "closed"
    runCalls,           \* number of ganglion_client.run() invocations
    runOutcome,         \* how ganglion_client.run() ended
    logs,               \* diagnostics emitted, in order
    raised,             \* exception that left app(), "none" otherwise
    exitStatus          \* process exit status, -1 while running

vars == << pc, config, envOption, defaultEnvironment, terminal, signup,
           welcome, version_info, SHELL, environment, resolveCalls,
           _environment, flows, configCalls, loadOutcome, _config,
           constructed, apps, countAtSeeding, importOutcome, strategies,
           installs, runner, runCalls, runOutcome, logs, raised, exitStatus >>

-----------------------------------------------------------------------------
(* Bounds of the model *)

\* largest number of apps a loaded config file declares
MaxConfigApps == 2

-----------------------------------------------------------------------------
(* Values *)

NoValue == "<none>"

\* keys of ENVIRONMENTS, the choices of -e (help text "prod, dev, or local")
ENVIRONMENTS == {"prod", "dev", "local"}

\* names a user or the GANGLION environment may supply
EnvNames == ENVIRONMENTS \cup {"staging"}

ConfigPaths == {"ganglion.toml"}

ShellPaths == {"/bin/zsh"}

\* minor versions of Python 3 the program runs on
PythonMinors == {10, 11, 12}

\* letters of generated identifiers
Letters == {"Q", "x"}

\* slug of the default application, "welcome"
WelcomeSlug == <<"w", "e", "l", "c", "o", "m", "e">>

-----------------------------------------------------------------------------
(* Collaborators of cli.py *)

\* str.lower on one letter
LowerLetter(c) ==
    CASE c = "Q" -> "q"
      [] c = "X" -> "x"
      [] OTHER -> c

\* str.lower
lower(s) == [i \in 1..Len(s) |-> LowerLetter(s[i])]

\* identity.generate(): some non-empty identifier
generate == {<<a, b>> : a \in Letters, b \in Letters}

\* an app declared in a config file
ConfigApp ==
    [name |-> "configured", command |-> "app", slug |-> <<"c">>,
     terminal |-> FALSE]

\* the config name before line 124 or 133 binds it
NoConfig == [source |-> "unbound", apps |-> <<>>]

\* default_config(): a document built from the defaults
default_config == [source |-> "default", apps |-> <<>>]

\* load_config(path) on success: a document with n declared apps
load_config(n) == [source |-> "file", apps |-> [i \in 1..n |-> ConfigApp]]

\* GanglionClient.app_count
app_count(sessions) == Len(sessions)

\* GanglionClient.add_terminal
add_terminal(sessions, name, command, slug) ==
    Append(sessions, [name |-> name, command |-> command, slug |-> slug,
                      terminal |-> TRUE])

\* GanglionClient.add_app
add_app(sessions, name, command, slug) ==
    Append(sessions, [name |-> name, command |-> command, slug |-> slug,
                      terminal |-> FALSE])

\* click's exit status for how app() ended
ExitOf(exc) == IF exc = "none" THEN 0 ELSE 1

-----------------------------------------------------------------------------
(* Init: a command line and a host, before click parses the options *)

Init ==
    /\ pc = "parse"
    /\ config \in {NoValue} \cup ConfigPaths
    /\ envOption \in {NoValue} \cup EnvNames
    /\ defaultEnvironment \in EnvNames
    /\ terminal \in BOOLEAN
    /\ signup \in BOOLEAN
    /\ welcome \in BOOLEAN
    /\ version_info \in PythonMinors
    /\ SHELL \in {NoValue} \cup ShellPaths
    /\ environment = NoValue
    /\ resolveCalls = <<>>
    /\ _environment = NoValue
    /\ flows = {}
    /\ configCalls = <<>>
    /\ loadOutcome = "none"
    /\ _config = NoConfig
    /\ constructed = FALSE
    /\ apps = <<>>
    /\ countAtSeeding = -1
    /\ importOutcome = "none"
    /\ strategies = <<>>
    /\ installs = 0
    /\ runner = "none"
    /\ runCalls = 0
    /\ runOutcome = "none"
    /\ logs = <<>>
    /\ raised = "none"
    /\ exitStatus = -1

intentVars == << config, envOption, defaultEnvironment, terminal, signup,
                 welcome, version_info, SHELL >>

\* app() ends: by return (exc = "none") or with exception exc
Terminate(exc) ==
    /\ pc' = "done"
    /\ raised' = exc
    /\ exitStatus' = ExitOf(exc)

-----------------------------------------------------------------------------
(* Option parsing and environment lookup *)

\* Variant: the Choice type is applied to a value given with -e only.
ParseOptions_DefaultUnchecked ==
    /\ pc = "parse"
    /\ LET value == IF envOption = NoValue THEN defaultEnvironment
                    ELSE envOption
       IN IF envOption # NoValue /\ value \notin ENVIRONMENTS
          THEN /\ pc' = "done"
               /\ exitStatus' = 2
               /\ logs' = Append(logs, "usage: invalid choice")
               /\ UNCHANGED environment
          ELSE /\ pc' = "get_environment"
               /\ environment' = value
               /\ UNCHANGED << exitStatus, logs >>
    /\ UNCHANGED << intentVars, resolveCalls, _environment, flows,
                    configCalls, loadOutcome, _config, constructed, apps,
                    countAtSeeding, importOutcome, strategies, installs,
                    runner, runCalls, runOutcome, raised >>

\* click resolves -e/--environment: the flag's value, else the default, and
\* converts it with click.Choice(list(ENVIRONMENTS)); a value that is no
\* choice is a usage error (exit status 2) and app() is not called.
ParseOptions ==
    /\ pc = "parse"
    /\ LET value == IF envOption = NoValue THEN defaultEnvironment
                    ELSE envOption
       IN IF value \notin ENVIRONMENTS
          THEN /\ pc' = "done"
               /\ exitStatus' = 2
               /\ logs' = Append(logs, "usage: invalid choice")
               /\ UNCHANGED environment
          ELSE /\ pc' = "get_environment"
               /\ environment' = value
               /\ UNCHANGED << exitStatus, logs >>
    /\ UNCHANGED << intentVars, resolveCalls, _environment, flows,
                    configCalls, loadOutcome, _config, constructed, apps,
                    countAtSeeding, importOutcome, strategies, installs,
                    runner, runCalls, runOutcome, raised >>

\* line 97: _environment = get_environment(environment); a name that is no
\* key of the registry is a KeyError that leaves app()
GetEnvironment ==
    /\ pc = "get_environment"
    /\ resolveCalls' = Append(resolveCalls, environment)
    /\ IF environment \in ENVIRONMENTS
       THEN /\ _environment' = environment
            /\ pc' = "if_signup"
            /\ UNCHANGED << raised, exitStatus >>
       ELSE /\ Terminate("KeyError")
            /\ UNCHANGED _environment
    /\ UNCHANGED << intentVars, environment, flows, configCalls, loadOutcome,
                    _config, constructed, apps, countAtSeeding, importOutcome,
                    strategies, installs, runner, runCalls, runOutcome, logs >>

-----------------------------------------------------------------------------
(* One-shot branches *)

\* Variant: the signup branch does not return after the flow.
IfSignup_NoReturn ==
    /\ pc = "if_signup"
    /\ IF signup
       THEN /\ flows' = flows \cup {"signup"}
            /\ \E exc \in {"none", "Exception"} :
                 IF exc = "none"
                 THEN pc' = "if_welcome" /\ UNCHANGED << raised, exitStatus >>
                 ELSE Terminate(exc)
       ELSE /\ pc' = "if_welcome"
            /\ UNCHANGED << flows, raised, exitStatus >>
    /\ UNCHANGED << intentVars, environment, resolveCalls, _environment,
                    configCalls, loadOutcome, _config, constructed, apps,
                    countAtSeeding, importOutcome, strategies, installs,
                    runner, runCalls, runOutcome, logs >>

\* lines 99-103: if signup: SignUpApp.signup(_environment); return.
\* The flow returns or raises; either way app() ends here.
IfSignup ==
    /\ pc = "if_signup"
    /\ IF signup
       THEN /\ flows' = flows \cup {"signup"}
            /\ \E exc \in {"none", "Exception"} : Terminate(exc)
       ELSE /\ pc' = "if_welcome"
            /\ UNCHANGED << flows, raised, exitStatus >>
    /\ UNCHANGED << intentVars, environment, resolveCalls, _environment,
                    configCalls, loadOutcome, _config, constructed, apps,
                    countAtSeeding, importOutcome, strategies, installs,
                    runner, runCalls, runOutcome, logs >>

\* Variant: the welcome branch does not return after the flow.
IfWelcome_NoReturn ==
    /\ pc = "if_welcome"
    /\ IF welcome
       THEN /\ flows' = flows \cup {"welcome"}
            /\ \E exc \in {"none", "Exception"} :
                 IF exc = "none"
                 THEN pc' = "normal_run" /\ UNCHANGED << raised, exitStatus >>
                 ELSE Terminate(exc)
       ELSE /\ pc' = "normal_run"
            /\ UNCHANGED << flows, raised, exitStatus >>
    /\ UNCHANGED << intentVars, environment, resolveCalls, _environment,
                    configCalls, loadOutcome, _config, constructed, apps,
                    countAtSeeding, importOutcome, strategies, installs,
                    runner, runCalls, runOutcome, logs >>

\* lines 105-109: if welcome: WelcomeApp().run(); return
IfWelcome ==
    /\ pc = "if_welcome"
    /\ IF welcome
       THEN /\ flows' = flows \cup {"welcome"}
            /\ \E exc \in {"none", "Exception"} : Terminate(exc)
       ELSE /\ pc' = "normal_run"
            /\ UNCHANGED << flows, raised, exitStatus >>
    /\ UNCHANGED << intentVars, environment, resolveCalls, _environment,
                    configCalls, loadOutcome, _config, constructed, apps,
                    countAtSeeding, importOutcome, strategies, installs,
                    runner, runCalls, runOutcome, logs >>

-----------------------------------------------------------------------------
(* Normal run: config, client, sessions *)

\* lines 111-118: the disclaimer and the version / environment log lines
NormalRun ==
    /\ pc = "normal_run"
    /\ flows' = flows \cup {"normal"}
    /\ logs' = logs \o << "disclaimer", "info: version", "info: environment" >>
    /\ pc' = "if_config"
    /\ UNCHANGED << intentVars, environment, resolveCalls, _environment,
                    configCalls, loadOutcome, _config, constructed, apps,
                    countAtSeeding, importOutcome, strategies, installs,
                    runner, runCalls, runOutcome, raised, exitStatus >>

\* the diagnostic of each handler of lines 125-130
LoadFailureLog(outcome) ==
    IF outcome = "FileNotFoundError"
    THEN "critical: Config not found"
    ELSE "stderr: Failed to load config"

\* Variant: a failed load falls back to the default document.
ResolveConfig_FallBack ==
    /\ pc = "if_config"
    /\ IF config # NoValue
       THEN /\ configCalls' = Append(configCalls, "load_config")
            /\ \E outcome \in {"loaded", "FileNotFoundError", "Exception"} :
                 /\ loadOutcome' = outcome
                 /\ IF outcome = "loaded"
                    THEN /\ \E n \in 0..MaxConfigApps :
                              _config' = load_config(n)
                         /\ logs' = Append(logs, "info: loading config")
                    ELSE /\ logs' = logs \o << "info: loading config",
                                               LoadFailureLog(outcome) >>
                         /\ _config' = default_config
       ELSE /\ logs' = Append(logs, "info: No --config specified")
            /\ configCalls' = Append(configCalls, "default_config")
            /\ _config' = default_config
            /\ UNCHANGED loadOutcome
    /\ pc' = "construct"
    /\ UNCHANGED << intentVars, environment, resolveCalls, _environment,
                    flows, constructed, apps, countAtSeeding, importOutcome,
                    strategies, installs, runner, runCalls, runOutcome,
                    raised, exitStatus >>

\* lines 120-133: load the config from --config, or take the defaults.
\* FileNotFoundError: log.critical and return; any other Exception: a line
\* on the error console and return.
ResolveConfig ==
    /\ pc = "if_config"
    /\ IF config # NoValue
       THEN /\ configCalls' = Append(configCalls, "load_config")
            /\ \E outcome \in {"loaded", "FileNotFoundError", "Exception"} :
                 /\ loadOutcome' = outcome
                 /\ IF outcome = "loaded"
                    THEN /\ \E n \in 0..MaxConfigApps :
                              _config' = load_config(n)
                         /\ logs' = Append(logs, "info: loading config")
                         /\ pc' = "construct"
                         /\ UNCHANGED << raised, exitStatus >>
                    ELSE /\ logs' = logs \o << "info: loading config",
                                               LoadFailureLog(outcome) >>
                         /\ Terminate("none")
                         /\ UNCHANGED _config
       ELSE /\ logs' = Append(logs, "info: No --config specified")
            /\ configCalls' = Append(configCalls, "default_config")
            /\ _config' = default_config
            /\ pc' = "construct"
            /\ UNCHANGED << loadOutcome, raised, exitStatus >>
    /\ UNCHANGED << intentVars, environment, resolveCalls, _environment,
                    flows, constructed, apps, countAtSeeding, importOutcome,
                    strategies, installs, runner, runCalls, runOutcome >>

\* lines 140-142: GanglionClient(config or "./", _config, _environment, ...);
\* the client's sessions start as the apps the config declares
Construct ==
    /\ pc = "construct"
    /\ constructed' = TRUE
    /\ apps' = _config.apps
    /\ pc' = "if_terminal"
    /\ UNCHANGED << intentVars, environment, resolveCalls, _environment,
                    flows, configCalls, loadOutcome, _config, countAtSeeding,
                    importOutcome, strategies, installs, runner, runCalls,
                    runOutcome, logs, raised, exitStatus >>

\* os.environ.get("SHELL", "bin/sh")
ShellCommand == IF SHELL = NoValue THEN "bin/sh" ELSE SHELL

\* lines 144-147: if terminal: add_terminal("Terminal", shell, id.lower())
IfTerminal ==
    /\ pc = "if_terminal"
    /\ IF terminal
       THEN \E id \in generate :
              apps' = add_terminal(apps, "Terminal", ShellCommand, lower(id))
       ELSE UNCHANGED apps
    /\ pc' = "if_app_count"
    /\ UNCHANGED << intentVars, environment, resolveCalls, _environment,
                    flows, configCalls, loadOutcome, _config, constructed,
                    countAtSeeding, importOutcome, strategies, installs,
                    runner, runCalls, runOutcome, logs, raised, exitStatus >>

\* Variant: the default application is added whatever the count.
SeedDefault_Always ==
    /\ pc = "if_app_count"
    /\ countAtSeeding' = app_count(apps)
    /\ apps' = add_app(apps, "Welcome", "textual-web --welcome", WelcomeSlug)
    /\ pc' = "import_uvloop"
    /\ UNCHANGED << intentVars, environment, resolveCalls, _environment,
                    flows, configCalls, loadOutcome, _config, constructed,
                    importOutcome, strategies, installs, runner, runCalls,
                    runOutcome, logs, raised, exitStatus >>

\* lines 149-150: if not app_count: add_app("Welcome", ..., "welcome")
SeedDefault ==
    /\ pc = "if_app_count"
    /\ countAtSeeding' = app_count(apps)
    /\ IF app_count(apps) = 0
       THEN apps' = add_app(apps, "Welcome", "textual-web --welcome",
                            WelcomeSlug)
       ELSE UNCHANGED apps
    /\ pc' = "import_uvloop"
    /\ UNCHANGED << intentVars, environment, resolveCalls, _environment,
                    flows, configCalls, loadOutcome, _config, constructed,
                    importOutcome, strategies, installs, runner, runCalls,
                    runOutcome, logs, raised, exitStatus >>

-----------------------------------------------------------------------------
(* Runtime selection and start *)

\* Variant: the import is not guarded, an ImportError leaves app().
ImportUvloop_Unguarded ==
    /\ pc = "import_uvloop"
    /\ \E outcome \in {"imported", "ImportError", "RuntimeError"} :
         /\ importOutcome' = outcome
         /\ IF outcome = "imported"
            THEN pc' = "if_version" /\ UNCHANGED << raised, exitStatus >>
            ELSE Terminate(outcome)
    /\ UNCHANGED << intentVars, environment, resolveCalls, _environment,
                    flows, configCalls, loadOutcome, _config, constructed,
                    apps, countAtSeeding, strategies, installs, runner,
                    runCalls, runOutcome, logs >>

\* lines 152-154, 156: try: import uvloop / except ImportError: / else:.
\* The import succeeds, raises ImportError (the handler's case), or raises
\* an error of another class, which no handler of the try catches.
ImportUvloop ==
    /\ pc = "import_uvloop"
    /\ \E outcome \in {"imported", "ImportError", "RuntimeError"} :
         /\ importOutcome' = outcome
         /\ IF outcome = "imported"
            THEN pc' = "if_version" /\ UNCHANGED << raised, exitStatus >>
            ELSE IF outcome = "ImportError"
            THEN pc' = "run_standard" /\ UNCHANGED << raised, exitStatus >>
            ELSE Terminate(outcome)
    /\ UNCHANGED << intentVars, environment, resolveCalls, _environment,
                    flows, configCalls, loadOutcome, _config, constructed,
                    apps, countAtSeeding, strategies, installs, runner,
                    runCalls, runOutcome, logs >>

\* line 155: asyncio.run(ganglion_client.run()) in the ImportError handler
RunStandard ==
    /\ pc = "run_standard"
    /\ strategies' = Append(strategies, "standard")
    /\ runCalls' = runCalls + 1
    /\ pc' = "running_standard"
    /\ UNCHANGED << intentVars, environment, resolveCalls, _environment,
                    flows, configCalls, loadOutcome, _config, constructed,
                    apps, countAtSeeding, importOutcome, installs, runner,
                    runOutcome, logs, raised, exitStatus >>

\* line 157: if sys.version_info >= (3, 11)
IfVersion ==
    /\ pc = "if_version"
    /\ pc' = IF version_info >= 11 THEN "runner_enter" ELSE "install"
    /\ UNCHANGED << intentVars, environment, resolveCalls, _environment,
                    flows, configCalls, loadOutcome, _config, constructed,
                    apps, countAtSeeding, importOutcome, strategies,
                    installs, runner, runCalls, runOutcome, logs, raised,
                    exitStatus >>

\* Variant: the loop is installed before the runner is entered.
RunnerEnter_Installs ==
    /\ pc = "runner_enter"
    /\ installs' = installs + 1
    /\ runner' = "open"
    /\ strategies' = Append(strategies, "runner")
    /\ pc' = "runner_run"
    /\ UNCHANGED << intentVars, environment, resolveCalls, _environment,
                    flows, configCalls, loadOutcome, _config, constructed,
                    apps, countAtSeeding, importOutcome, runCalls,
                    runOutcome, logs, raised, exitStatus >>

\* line 158: with asyncio.Runner(loop_factory=uvloop.new_event_loop) as runner
RunnerEnter ==
    /\ pc = "runner_enter"
    /\ runner' = "open"
    /\ strategies' = Append(strategies, "runner")
    /\ pc' = "runner_run"
    /\ UNCHANGED << intentVars, environment, resolveCalls, _environment,
                    flows, configCalls, loadOutcome, _config, constructed,
                    apps, countAtSeeding, importOutcome, installs, runCalls,
                    runOutcome, logs, raised, exitStatus >>

\* line 159: runner.run(ganglion_client.run())
RunnerRun ==
    /\ pc = "runner_run"
    /\ runCalls' = runCalls + 1
    /\ pc' = "running_runner"
    /\ UNCHANGED << intentVars, environment, resolveCalls, _environment,
                    flows, configCalls, loadOutcome, _config, constructed,
                    apps, countAtSeeding, importOutcome, strategies,
                    installs, runner, runOutcome, logs, raised, exitStatus >>

\* line 161: uvloop.install()
InstallLoop ==
    /\ pc = "install"
    /\ installs' = installs + 1
    /\ strategies' = Append(strategies, "install")
    /\ pc' = "run_installed"
    /\ UNCHANGED << intentVars, environment, resolveCalls, _environment,
                    flows, configCalls, loadOutcome, _config, constructed,
                    apps, countAtSeeding, importOutcome, runner, runCalls,
                    runOutcome, logs, raised, exitStatus >>

\* line 162: asyncio.run(ganglion_client.run())
RunInstalled ==
    /\ pc = "run_installed"
    /\ runCalls' = runCalls + 1
    /\ pc' = "running_installed"
    /\ UNCHANGED << intentVars, environment, resolveCalls, _environment,
                    flows, configCalls, loadOutcome, _config, constructed,
                    apps, countAtSeeding, importOutcome, strategies,
                    installs, runner, runOutcome, logs, raised, exitStatus >>

\* the exception a finished run() leaves behind
ExcOf(outcome) == IF outcome = "returned" THEN "none" ELSE outcome

\* Variant: the runner is no context manager, a failed run() skips its close.
RunEnds_NoScope ==
    /\ pc \in {"running_standard", "running_runner", "running_installed"}
    /\ \E outcome \in {"returned", "Exception", "KeyboardInterrupt"} :
         /\ runOutcome' = outcome
         /\ IF pc = "running_runner" /\ outcome = "returned"
            THEN pc' = "runner_exit" /\ UNCHANGED << raised, exitStatus >>
            ELSE Terminate(ExcOf(outcome))
    /\ UNCHANGED << intentVars, environment, resolveCalls, _environment,
                    flows, configCalls, loadOutcome, _config, constructed,
                    apps, countAtSeeding, importOutcome, strategies,
                    installs, runner, runCalls, logs >>

\* ganglion_client.run() ends: it returns, raises, or is cancelled by an
\* interrupt.  Lines 155 and 162 have no handler, the outcome leaves app();
\* at line 159 control passes to the exit of the with block first.
RunEnds ==
    /\ pc \in {"running_standard", "running_runner", "running_installed"}
    /\ \E outcome \in {"returned", "Exception", "KeyboardInterrupt"} :
         /\ runOutcome' = outcome
         /\ IF pc = "running_runner"
            THEN pc' = "runner_exit" /\ UNCHANGED << raised, exitStatus >>
            ELSE Terminate(ExcOf(outcome))
    /\ UNCHANGED << intentVars, environment, resolveCalls, _environment,
                    flows, configCalls, loadOutcome, _config, constructed,
                    apps, countAtSeeding, importOutcome, strategies,
                    installs, runner, runCalls, logs >>

\* Variant: the version test is two ifs, the legacy branch follows the runner.
RunnerExit_FallsThrough ==
    /\ pc = "runner_exit"
    /\ runner' = "closed"
    /\ IF runOutcome = "returned"
       THEN pc' = "install" /\ UNCHANGED << raised, exitStatus >>
       ELSE Terminate(ExcOf(runOutcome))
    /\ UNCHANGED << intentVars, environment, resolveCalls, _environment,
                    flows, configCalls, loadOutcome, _config, constructed,
                    apps, countAtSeeding, importOutcome, strategies,
                    installs, runCalls, runOutcome, logs >>

\* line 158, leaving the with block: Runner.__exit__ closes the runner and
\* does not suppress the exception in flight
RunnerExit ==
    /\ pc = "runner_exit"
    /\ runner' = "closed"
    /\ Terminate(ExcOf(runOutcome))
    /\ UNCHANGED << intentVars, environment, resolveCalls, _environment,
                    flows, configCalls, loadOutcome, _config, constructed,
                    apps, countAtSeeding, importOutcome, strategies,
                    installs, runCalls, runOutcome, logs >>

-----------------------------------------------------------------------------
(* Specification *)

Next ==
    \/ ParseOptions
    \/ GetEnvironment
    \/ IfSignup
    \/ IfWelcome
    \/ NormalRun
    \/ ResolveConfig
    \/ Construct
    \/ IfTerminal
    \/ SeedDefault
    \/ ImportUvloop
    \/ RunStandard
    \/ IfVersion
    \/ RunnerEnter
    \/ RunnerRun
    \/ InstallLoop
    \/ RunInstalled
    \/ RunEnds
    \/ RunnerExit

Spec == Init /\ [][Next]_vars

-----------------------------------------------------------------------------
(* Properties *)

\* the diagnostic m was emitted
Logged(m) == \E i \in DOMAIN logs : logs[i] = m

\* app() was entered and its signup / welcome / normal-run choice is made
PathChosen ==
    /\ _environment # NoValue
    /\ pc \notin {"if_signup", "if_welcome", "normal_run"}

\* C1: whatever the signup, welcome, terminal and config flags, an invocation
\* that enters app() executes exactly one of the signup flow, the welcome
\* flow and the normal run, in the priority signup > welcome > normal run:
\* signup set runs only the signup flow (also with welcome set), welcome set
\* without signup runs only the welcome flow, and the normal run happens only
\* with both unset.
C1_OnePathByPriority ==
    /\ Cardinality(flows) <= 1
    /\ "normal" \in flows => ~signup /\ ~welcome
    /\ PathChosen =>
         /\ signup => flows = {"signup"}
         /\ (~signup /\ welcome) => flows = {"welcome"}
         /\ (~signup /\ ~welcome) => flows = {"normal"}

\* C1 witness: both --signup and --welcome given (with -t and --config), the
\* invocation is over and only the signup flow ran
C1_Witness ==
    /\ pc = "done"
    /\ signup /\ welcome /\ terminal /\ config # NoValue
    /\ flows = {"signup"}

\* C2: when load_config raises (FileNotFoundError or any other Exception) the
\* invocation is over with no partial state: no client constructed, no
\* session registered, no runtime probed or started, run() never invoked.
C2_ConfigFailureLeavesNothing ==
    loadOutcome \in {"FileNotFoundError", "Exception"} =>
        /\ pc = "done"
        /\ ~constructed
        /\ apps = <<>>
        /\ importOutcome = "none"
        /\ strategies = <<>>
        /\ installs = 0
        /\ runner = "none"
        /\ runCalls = 0
        /\ raised = "none"

\* C2 witness: --config and -t given, load_config raised a non-NotFound error
C2_Witness ==
    /\ pc = "done"
    /\ terminal
    /\ loadOutcome = "Exception"
    /\ Logged("stderr: Failed to load config")

\* C3: when --config names a missing path (load_config raises
\* FileNotFoundError) the condition is logged and the process ends with a
\* non-zero exit status.
C3_NotFoundExitsNonZero ==
    (pc = "done" /\ loadOutcome = "FileNotFoundError") =>
        /\ Logged("critical: Config not found")
        /\ exitStatus # 0

\* the default example application among the client's sessions
DefaultApps ==
    {i \in DOMAIN apps : ~apps[i].terminal /\ apps[i].slug = WelcomeSlug}

\* the seeding test of line 149 has been evaluated
SeedingEvaluated == countAtSeeding >= 0

\* C4: in a normal run the default application is injected iff the session
\* count is zero when the seeding step is evaluated, and at most once: with
\* -t unset and no session from the config the count is 0 before and 1 after;
\* with -t set a terminal session is registered first, the count is >= 1
\* before seeding and the default application is not injected.
C4_DefaultSeededIffEmpty ==
    /\ Cardinality(DefaultApps) <= 1
    /\ ~SeedingEvaluated => DefaultApps = {}
    /\ SeedingEvaluated =>
         /\ (DefaultApps # {}) <=> (countAtSeeding = 0)
         /\ app_count(apps) = countAtSeeding + Cardinality(DefaultApps)
         /\ (~terminal /\ app_count(_config.apps) = 0) =>
               (countAtSeeding = 0 /\ app_count(apps) = 1)
         /\ terminal =>
               /\ countAtSeeding >= 1
               /\ DefaultApps = {}
               /\ \E i \in DOMAIN apps : apps[i].terminal

\* C4 witness: -t unset, nothing registered, the default application seeded
C4_Witness ==
    /\ ~terminal
    /\ countAtSeeding = 0
    /\ app_count(apps) = 1
    /\ DefaultApps = {1}

\* a startup strategy was entered
RuntimeStarted == strategies # <<>>

\* C5: a normal run that reaches runtime start executes exactly one startup
\* strategy and invokes run() exactly once: the standard entry point when
\* uvloop is unavailable, else exactly one of the scoped runner and the
\* install-then-standard-entry branch, never both and never also the
\* standard-only branch.
C5_OneStrategyOneRun ==
    /\ Len(strategies) <= 1
    /\ runCalls <= 1
    /\ runCalls = 1 => Len(strategies) = 1
    /\ (RuntimeStarted /\ pc = "done") => runCalls = 1
    /\ (RuntimeStarted /\ importOutcome = "ImportError") =>
          strategies = << "standard" >>
    /\ (RuntimeStarted /\ importOutcome = "imported") =>
          strategies \in { << "runner" >>, << "install" >> }

\* C5 witness: uvloop imported on Python 3.11+, the runner branch ran run()
\* once and the invocation is over
C5_Witness ==
    /\ pc = "done"
    /\ importOutcome = "imported"
    /\ strategies = << "runner" >>
    /\ runCalls = 1
    /\ runOutcome = "returned"

\* C6 (as claimed): any failure of the uvloop import, whatever the class of
\* the error, is no hard failure: the standard entry point drives run().
C6_AnyProbeFailureFallsThrough ==
    (pc = "done" /\ importOutcome \in {"ImportError", "RuntimeError"}) =>
        /\ raised # importOutcome
        /\ strategies = << "standard" >>
        /\ runCalls = 1

\* C6 (amended): a failure of the uvloop import with ImportError is no hard
\* failure: nothing is logged, nothing is installed, and the standard
\* blocking entry point drives run(), whose outcome alone ends the invocation.
C6_ImportErrorFallsThrough ==
    importOutcome = "ImportError" =>
        /\ pc \in {"run_standard", "running_standard", "done"}
        /\ raised # "ImportError"
        /\ logs[Len(logs)] \in {"info: loading config",
                                "info: No --config specified"}
        /\ installs = 0
        /\ runner = "none"
        /\ pc = "done" =>
              /\ strategies = << "standard" >>
              /\ runCalls = 1
              /\ raised = ExcOf(runOutcome)

\* C6 witness: the import raised ImportError and run() ran to its return
\* under the standard entry point
C6_Witness ==
    /\ pc = "done"
    /\ importOutcome = "ImportError"
    /\ strategies = << "standard" >>
    /\ runOutcome = "returned"
    /\ exitStatus = 0

\* the environment name the option layer works on
EffectiveName == IF envOption = NoValue THEN defaultEnvironment ELSE envOption

\* C7: a name outside the registry is rejected by the option layer before
\* any resolution: get_environment is only ever called with a key of
\* ENVIRONMENTS, also when the name is the compiled-in default.
C7_ResolveOnlyRegistered ==
    /\ \A i \in DOMAIN resolveCalls : resolveCalls[i] \in ENVIRONMENTS
    /\ (EffectiveName \notin ENVIRONMENTS /\ pc # "parse") =>
          /\ pc = "done"
          /\ resolveCalls = <<>>
          /\ exitStatus = 2
          /\ flows = {}

\* C7 witness: no -e given, the default names no profile, the invocation is
\* rejected without a resolution
C7_Witness ==
    /\ pc = "done"
    /\ envOption = NoValue
    /\ defaultEnvironment \notin ENVIRONMENTS
    /\ resolveCalls = <<>>
    /\ exitStatus = 2

\* C8: with signup or welcome set the invocation ends after the sub-flow:
\* neither load_config nor default_config is called (--config given or not),
\* no client is constructed, no session registered, no runtime started.
C8_OneShotLeavesNormalRunUntouched ==
    (signup \/ welcome) =>
        /\ flows # {} => pc = "done"
        /\ configCalls = <<>>
        /\ _config = NoConfig
        /\ loadOutcome = "none"
        /\ ~constructed
        /\ apps = <<>>
        /\ importOutcome = "none"
        /\ strategies = <<>>
        /\ installs = 0
        /\ runner = "none"
        /\ runCalls = 0

\* C8 witness: --welcome with --config and -t, the welcome flow returned
C8_Witness ==
    /\ pc = "done"
    /\ welcome /\ ~signup /\ terminal /\ config # NoValue
    /\ flows = {"welcome"}
    /\ exitStatus = 0

\* C9: in the scoped-runner branch the runner is closed on every exit path
\* of run() (return, exception, cancellation), and an exception of run() is
\* neither caught nor translated: it leaves app() after the close.
C9_RunnerClosedOnEveryExit ==
    runner # "none" =>
        /\ pc = "done" => runner = "closed"
        /\ (raised # "none" \/ exitStatus # -1) => runner = "closed"
        /\ pc = "done" => raised = ExcOf(runOutcome)
        /\ (pc = "done" /\ runOutcome # "returned") =>
              (raised = runOutcome /\ exitStatus = 1)

\* C9 witness: run() raised inside the with block, the runner is closed and
\* the exception left app()
C9_Witness ==
    /\ pc = "done"
    /\ runner = "closed"
    /\ runOutcome = "Exception"
    /\ raised = "Exception"

\* C10: uvloop.install() happens only in the accelerated branch of a Python
\* without asyncio.Runner (< 3.11), there before run() starts; the runner
\* branch and the standard branch never install a process-wide loop.
C10_InstallOnlyLegacyBeforeRun ==
    /\ installs <= 1
    /\ installs = 1 =>
          /\ importOutcome = "imported"
          /\ version_info < 11
          /\ strategies = << "install" >>
    /\ (RuntimeStarted /\ strategies[1] \in {"runner", "standard"}) =>
          installs = 0
    /\ (importOutcome = "imported" /\ version_info < 11 /\ runCalls >= 1) =>
          installs = 1
    /\ pc = "run_installed" => (installs = 1 /\ runCalls = 0)

\* C10 witness: on Python 3.10 with uvloop, the loop is installed and run()
\* has just been started
C10_Witness ==
    /\ pc = "running_installed"
    /\ version_info = 10
    /\ installs = 1
    /\ runCalls = 1

====
